---- MODULE Spec2Model ----
(***************************************************************************)
(* Model of watcher.py: the LogWatcher that tails an nginx access log,     *)
(* keeps a bounded window of parsed requests, detects pool changes and a   *)
(* high upstream error rate, and posts alerts to a Slack webhook behind a  *)
(* maintenance switch and a per-alert-type cooldown.                       *)
(*                                                                         *)
(* Time is counted in whole ticks of the clock read by time.time(); the    *)
(* clock never runs backwards.  The error rate is kept as the fraction     *)
(* num/den; the comparison with the threshold follows the float value      *)
(* (error_count / len) * 100 of the source, rounding included.             *)
(***************************************************************************)
EXTENDS Integers, Sequences, FiniteSets, TLC

\* ---------------------------------------------------------------- bounds
MaxWindow == 2      \* largest WINDOW_SIZE explored
MaxLines == 3       \* number of parsed lines read from the log
MaxTime == 2        \* last clock tick explored
MaxLatency == 1     \* longest time a call to the webhook takes, in ticks
MaxRateLen == 3     \* longest window given to calculate_error_rate alone
MaxFile == 3        \* most lines the log file ever holds

\* ------------------------------------------------------ program constants
cooldown_sec == 2   \* ALERT_COOLDOWN_SEC, in ticks
SmallThreshold == 50    \* an ERROR_RATE_THRESHOLD, in percent
BatchThreshold == 55    \* another ERROR_RATE_THRESHOLD
BatchWindow == 20       \* a WINDOW_SIZE for whole batches of lines

None == "<None>"

FAILOVER == "Failover Detected"
HIGH_ERROR_RATE == "High Error Rate"
AlertTypes == {FAILOVER, HIGH_ERROR_RATE}

\* values of WINDOW_SIZE explored: the smallest and the largest
WindowSizes == {1, MaxWindow}

VARIABLES
    slack_webhook,      \* TRUE iff SLACK_WEBHOOK_URL is set and non-empty
    error_threshold,    \* ERROR_RATE_THRESHOLD, in percent
    window_size,
    maintenance_mode,
    last_alert_time,    \* dict: alert type -> clock value of the last 200
    request_window,     \* deque(maxlen = window_size) of parsed records
    current_pool,
    now,                \* the clock read by time.time()
    pushed,             \* every record appended to the window, in order
    dispatches,         \* the send_slack_alert calls of the last line
    error_rate,         \* the last value of calculate_error_rate
    posts,              \* the requests.post calls of the last line
    delivered,          \* alert type -> times of the posts answered 200
    outcomes,           \* alert type -> outcomes of its dispatches so far
    file,               \* the lines of the log file, oldest first
    attach,             \* the number of lines in the file at file.seek(0, 2)
    pos,                \* the number of lines of the file behind the reader
    handed,             \* the calls of process_log_line made by watch_logs
    running             \* TRUE while the loop of watch_logs runs

vars == <<slack_webhook, error_threshold, window_size, maintenance_mode,
          last_alert_time, request_window, current_pool, now, pushed,
          dispatches, error_rate, posts, delivered, outcomes, file, attach,
          pos, handed, running>>

config == <<slack_webhook, error_threshold, window_size, maintenance_mode>>

\* the state of watch_logs
stream == <<file, attach, pos, handed, running>>

\* ----------------------------------------------------------------- lines
\* A line is given by whether it has the shape of log_pattern and by the
\* text of the groups that the watcher reads.
\* the texts of the groups status and upstream_status
StatusPairs == {<<"200", "-">>, <<"500", "-">>, <<"200", "500">>,
                <<"500", "200">>}
Pools == {"", "A", "B"}

GoodLines ==
    { [matched |-> TRUE, status |-> c[1], request_time |-> "0.1",
       upstream_response_time |-> "-", upstream_status |-> c[2],
       pool |-> p] : c \in StatusPairs, p \in Pools }

BadLines ==
    { [matched |-> FALSE, status |-> "200", request_time |-> "0.1",
       upstream_response_time |-> "0.1", upstream_status |-> "500",
       pool |-> "B"],
      [matched |-> TRUE, status |-> "500", request_time |-> "x",
       upstream_response_time |-> "0.1", upstream_status |-> "500",
       pool |-> "B"],
      [matched |-> TRUE, status |-> "500", request_time |-> "0.1",
       upstream_response_time |-> "x", upstream_status |-> "500",
       pool |-> "B"],
      [matched |-> TRUE, status |-> "500", request_time |-> "0.1",
       upstream_response_time |-> "0.1", upstream_status |-> "x",
       pool |-> "B"] }

Lines == GoodLines \cup BadLines

\* int(text): defined on decimal numerals only
IsInt(tok) == tok \in {"200", "500"}
IntOf(tok) == IF tok = "200" THEN 200 ELSE 500

\* float(text): defined on numerals only
IsFloat(tok) == tok \in {"0.1", "200", "500"}

\* the None returned by parse_log_line
Unparseable == [upstream_status |-> -1, pool |-> None]

\* mutant: the text of upstream_status is not checked
ParseLogLine_Lenient(line) ==
    IF ~line.matched THEN Unparseable
    ELSE IF ~IsInt(line.status) THEN Unparseable
    ELSE IF line.request_time # "-" /\ ~IsFloat(line.request_time)
         THEN Unparseable
    ELSE IF line.upstream_response_time # "-"
            /\ ~IsFloat(line.upstream_response_time) THEN Unparseable
    ELSE [upstream_status |->
              IF line.upstream_status # "-" THEN IntOf(line.upstream_status)
              ELSE IntOf(line.status),
          pool |-> line.pool]

\* parse_log_line: Unparseable, or the fields of the record that are read
\* later
ParseLogLine(line) ==
    IF ~line.matched THEN Unparseable
    ELSE IF ~IsInt(line.status) THEN Unparseable
    ELSE IF line.request_time # "-" /\ ~IsFloat(line.request_time)
         THEN Unparseable
    ELSE IF line.upstream_response_time # "-"
            /\ ~IsFloat(line.upstream_response_time) THEN Unparseable
    ELSE IF line.upstream_status # "-" /\ ~IsInt(line.upstream_status)
         THEN Unparseable
    ELSE [upstream_status |->
              IF line.upstream_status # "-" THEN IntOf(line.upstream_status)
              ELSE IntOf(line.status),
          pool |-> line.pool]

\* --------------------------------------------------------------- window
\* mutant: a full deque drops the new record instead of the oldest
DequeAppend_DropNewest(w, r, n) ==
    LET a == Append(w, r)
    IN IF Len(a) > n THEN SubSeq(a, 1, n) ELSE a

\* deque.append on a deque with maxlen = n
DequeAppend(w, r, n) ==
    LET a == Append(w, r)
    IN IF Len(a) > n THEN SubSeq(a, Len(a) - n + 1, Len(a)) ELSE a

\* mutant: no upper end of the error range
IsError_NoUpperEnd(req) == 500 <= req.upstream_status

\* 500 <= req.get('upstream_status', 0) < 600
IsError(req) == 500 <= req.upstream_status /\ req.upstream_status < 600

RECURSIVE ErrorCount(_)
ErrorCount(w) ==
    IF w = <<>> THEN 0
    ELSE (IF IsError(Head(w)) THEN 1 ELSE 0) + ErrorCount(Tail(w))

\* the value 0.0
ZeroRate == [num |-> 0, den |-> 1]

\* calculate_error_rate: the percentage as the fraction num / den
CalculateErrorRate(w) ==
    IF Len(w) = 0 THEN ZeroRate
    ELSE [num |-> ErrorCount(w) * 100, den |-> Len(w)]

\* ------------------------------------------------- float arithmetic
\* Python floats are IEEE-754 doubles: every operation gives the exact
\* result rounded to 53 significant bits, ties to the even neighbour.  A
\* natural number is kept as the sequence of its bits, highest first.
MantissaBits == 53

RECURSIVE NatBits(_)
NatBits(x) == IF x = 0 THEN <<>> ELSE Append(NatBits(x \div 2), x % 2)

Zeros(j) == [i \in 1..j |-> 0]

StripZeros(a) ==
    LET ones == {i \in DOMAIN a : a[i] = 1}
    IN IF ones = {} THEN <<>>
       ELSE SubSeq(a, CHOOSE i \in ones : \A j \in ones : i <= j, Len(a))

\* a * m + carry, from the lowest bit up; acc holds the bits done so far
RECURSIVE MulCarry(_, _, _, _)
MulCarry(a, m, carry, acc) ==
    IF Len(acc) = Len(a) THEN NatBits(carry) \o acc
    ELSE LET v == a[Len(a) - Len(acc)] * m + carry
         IN MulCarry(a, m, v \div 2, <<v % 2>> \o acc)

MulSmall(a, m) == StripZeros(MulCarry(a, m, 0, <<>>))

Increment(a) == StripZeros(MulCarry(a, 1, 1, <<>>))

CompareBits(x, y) ==
    LET a == StripZeros(x)
        b == StripZeros(y)
        diff == {i \in DOMAIN a : a[i] # b[i]}
        first == CHOOSE i \in diff : \A j \in diff : i <= j
    IN IF Len(a) > Len(b) THEN 1
       ELSE IF Len(a) < Len(b) THEN -1
       ELSE IF diff = {} THEN 0
       ELSE IF a[first] > b[first] THEN 1 ELSE -1

\* the natural number x rounded to 53 significant bits: m * 2^d
RoundBits(x) ==
    LET a == StripZeros(x)
        drop == Len(a) - MantissaBits
    IN IF drop <= 0 THEN [m |-> a, d |-> 0]
       ELSE LET hi == SubSeq(a, 1, MantissaBits)
                lo == SubSeq(a, MantissaBits + 1, Len(a))
                up == /\ lo[1] = 1
                      /\ \/ \E i \in 2..Len(lo) : lo[i] = 1
                         \/ hi[MantissaBits] = 1
            IN [m |-> IF up THEN Increment(hi) ELSE hi, d |-> drop]

\* long division of r / n with r < n: bits holds the quotient bits after
\* the point found so far; the result is the rounded quotient m / 2^s
RECURSIVE DivideFrom(_, _, _)
DivideFrom(r, n, bits) ==
    LET b == IF 2 * r >= n THEN 1 ELSE 0
        r2 == 2 * r - b * n
        bits2 == Append(bits, b)
        up == \/ 2 * r2 > n
              \/ 2 * r2 = n /\ b = 1
    IN IF Len(StripZeros(bits2)) = MantissaBits
       THEN [m |-> IF up THEN Increment(bits2) ELSE StripZeros(bits2),
             s |-> Len(bits2)]
       ELSE DivideFrom(r2, n, bits2)

\* the float k / n for 0 < k < n
FloatDivide(k, n) == DivideFrom(k, n, <<>>)

\* the sign of (k / n) * 100 computed in floats minus the number 100k/n
RoundingSign(k, n) ==
    IF k = 0 \/ k = n THEN 0
    ELSE LET q == FloatDivide(k, n)
             p == RoundBits(MulSmall(q.m, 100))
         IN CompareBits(MulSmall(p.m \o Zeros(p.d), n),
                        NatBits(100 * k) \o Zeros(q.s))

\* the window lengths for which the rounding is tabulated
FloatLens == 1..BatchWindow

FloatError == [n \in FloatLens |-> [k \in 0..n |-> RoundingSign(k, n)]]

\* error_rate > threshold, for the float error_rate and a whole threshold:
\* the rounding decides only when the fraction equals the threshold
RateExceeds(rate, threshold) ==
    \/ rate.num > threshold * rate.den
    \/ /\ rate.num = threshold * rate.den
       /\ FloatError[rate.den][rate.num \div 100] = 1

\* ------------------------------------------------------------- dispatch
\* mutant: the cooldown ends one tick early
IsCooldownActive_OneShort(alert_type, lat, t) ==
    IF alert_type \notin DOMAIN lat THEN FALSE
    ELSE (t - lat[alert_type]) < cooldown_sec - 1

\* mutant: the cooldown is never active
IsCooldownActive_Never(alert_type, lat, t) == FALSE

\* mutant: an alert type that was never sent counts as cooling down
IsCooldownActive_Unseen(alert_type, lat, t) ==
    IF alert_type \notin DOMAIN lat THEN TRUE
    ELSE (t - lat[alert_type]) < cooldown_sec

\* mutant: the last send of any alert type counts
IsCooldownActive_AnyType(alert_type, lat, t) ==
    \E a \in DOMAIN lat : (t - lat[a]) < cooldown_sec

\* is_cooldown_active, with the clock reading t
IsCooldownActive(alert_type, lat, t) ==
    IF alert_type \notin DOMAIN lat THEN FALSE
    ELSE (t - lat[alert_type]) < cooldown_sec

\* what requests.post can do: answer with a status code after some time,
\* or raise
SinkResponses ==
    { [raised |-> FALSE, status |-> 200, latency |-> 0],
      [raised |-> FALSE, status |-> 200, latency |-> MaxLatency],
      [raised |-> FALSE, status |-> 500, latency |-> 0],
      [raised |-> TRUE, status |-> 0, latency |-> MaxLatency] }

NoResponse == [raised |-> FALSE, status |-> 0, latency |-> 0]

\* mutant: the maintenance switch is ignored
MaintenanceActive_Ignored(maint) == FALSE

\* if self.maintenance_mode
MaintenanceActive(maint) == maint

\* if not self.slack_webhook
Unconfigured(hook) == ~hook

\* mutant: every answer of the webhook counts as a success
IsSuccess_AnyStatus(resp) == ~resp.raised

\* requests.post returned and response.status_code == 200
IsSuccess(resp) == ~resp.raised /\ resp.status = 200

\* none of the three early returns of send_slack_alert applies
ReachesSink(alert_type, maint, hook, lat, t) ==
    /\ ~MaintenanceActive(maint)
    /\ ~Unconfigured(hook)
    /\ ~IsCooldownActive(alert_type, lat, t)

\* the answers the webhook can give to one send_slack_alert call
ResponsesFor(alert_type, maint, hook, lat, t) ==
    IF ReachesSink(alert_type, maint, hook, lat, t)
    THEN {r \in SinkResponses : t + r.latency <= MaxTime}
    ELSE {NoResponse}

\* self.last_alert_time[alert_type] = time.time()
SetKey(f, k, v) == [x \in DOMAIN f \cup {k} |-> IF x = k THEN v ELSE f[x]]

\* mutant: a call that did not succeed is made again
PostsMade_Retry(post, resp) ==
    IF ~resp.raised /\ resp.status = 200 THEN <<post>> ELSE <<post, post>>

\* the calls of requests.post made by one send_slack_alert
PostsMade(post, resp) == <<post>>

\* mutant: the webhook is looked at before the maintenance switch
SendSlackAlert_UnconfiguredFirst(alert_type, details, maint, hook, lat, t, resp) ==
    LET early(o) == [alert_type |-> alert_type, details |-> details,
                     outcome |-> o, lat |-> lat, at |-> t, done |-> t,
                     posts |-> <<>>]
        post == [alert_type |-> alert_type, at |-> t,
                 raised |-> resp.raised, status |-> resp.status]
        done == t + resp.latency
    IN IF Unconfigured(hook) THEN early("unconfigured")
       ELSE IF MaintenanceActive(maint) THEN early("maintenance")
       ELSE IF IsCooldownActive(alert_type, lat, t) THEN early("cooldown")
       ELSE [alert_type |-> alert_type, details |-> details,
             outcome |-> IF IsSuccess(resp) THEN "sent" ELSE "failed",
             lat |-> IF IsSuccess(resp) THEN SetKey(lat, alert_type, done)
                     ELSE lat,
             at |-> t, done |-> done, posts |-> PostsMade(post, resp)]

\* send_slack_alert called at clock value t: the outcome, the new
\* last_alert_time, the clock after the call and the requests.post made
SendSlackAlert(alert_type, details, maint, hook, lat, t, resp) ==
    LET early(o) == [alert_type |-> alert_type, details |-> details,
                     outcome |-> o, lat |-> lat, at |-> t, done |-> t,
                     posts |-> <<>>]
        post == [alert_type |-> alert_type, at |-> t,
                 raised |-> resp.raised, status |-> resp.status]
        done == t + resp.latency
    IN IF MaintenanceActive(maint) THEN early("maintenance")
       ELSE IF Unconfigured(hook) THEN early("unconfigured")
       ELSE IF IsCooldownActive(alert_type, lat, t) THEN early("cooldown")
       ELSE [alert_type |-> alert_type, details |-> details,
             outcome |-> IF IsSuccess(resp) THEN "sent" ELSE "failed",
             lat |-> IF IsSuccess(resp) THEN SetKey(lat, alert_type, done)
                     ELSE lat,
             at |-> t, done |-> done, posts |-> PostsMade(post, resp)]

\* the call as it is kept in dispatches
Logged(d) == [alert_type |-> d.alert_type, details |-> d.details,
              outcome |-> d.outcome, at |-> d.at, done |-> d.done]

\* ------------------------------------------------------ process_log_line
\* truth value of a pool: None and "" are false
Truthy(pool) == pool # None /\ pool # ""

\* mutant: the first pool seen counts as a failover
FailoverDue_FirstPool(pool, cur) == Truthy(pool) /\ pool # cur

\* mutant: a failover is due for every record once a pool is known
FailoverDue_SamePool(pool, cur) == Truthy(pool) /\ Truthy(cur)

\* the two nested conditions on the pool: a failover alert is due
FailoverDue(pool, cur) ==
    /\ Truthy(pool) /\ pool # cur
    /\ Truthy(cur) /\ pool # cur

\* mutant: the pool is stored only when none was known
NextPool_OnlyFirst(pool, cur) ==
    IF Truthy(pool) /\ ~Truthy(cur) THEN pool ELSE cur

\* self.current_pool after the pool check
NextPool(pool, cur) == IF Truthy(pool) /\ pool # cur THEN pool ELSE cur

\* mutant: the window need not be full
HighErrorRateDue_AnyFill(w, threshold, n) ==
    RateExceeds(CalculateErrorRate(w), threshold)

\* the condition of the error rate check
HighErrorRateDue(w, threshold, n) ==
    RateExceeds(CalculateErrorRate(w), threshold) /\ Len(w) >= n

\* the details of the two alerts that depend on the state
FailoverDetails(pool, cur) == [previous |-> cur, new |-> pool]
RateDetails(w, cur) ==
    [previous |-> IF Truthy(cur) THEN cur ELSE "unknown", new |-> ""]

\* what the webhook has seen, kept outside the watcher
RECURSIVE Deliver(_, _)
Deliver(ok, ps) ==
    IF ps = <<>> THEN ok
    ELSE LET p == Head(ps)
         IN Deliver(IF ~p.raised /\ p.status = 200
                    THEN [ok EXCEPT ![p.alert_type] = Append(@, p.at)]
                    ELSE ok,
                    Tail(ps))

RECURSIVE Outcomes(_, _)
Outcomes(os, ds) ==
    IF ds = <<>> THEN os
    ELSE Outcomes([os EXCEPT ![Head(ds).alert_type] =
                                 Append(@, Head(ds).outcome)],
                  Tail(ds))

\* ---------------------------------------------------------------- state
Last(q) == q[Len(q)]

\* the state of a watcher after __init__
Fresh ==
    /\ last_alert_time = <<>>
    /\ request_window = <<>>
    /\ current_pool = None
    /\ now = 0
    /\ pushed = <<>>
    /\ dispatches = <<>>
    /\ error_rate = ZeroRate
    /\ posts = <<>>
    /\ delivered = [a \in AlertTypes |-> <<>>]
    /\ outcomes = [a \in AlertTypes |-> <<>>]

\* watch_logs is not looked at: lines are given to process_log_line
NoStream ==
    /\ file = <<>>
    /\ attach = 0
    /\ pos = 0
    /\ handed = <<>>
    /\ running = TRUE

Init ==
    /\ slack_webhook \in BOOLEAN
    /\ error_threshold = SmallThreshold
    /\ window_size \in WindowSizes
    /\ maintenance_mode \in BOOLEAN
    /\ Fresh
    /\ NoStream

\* process_log_line on a line that parse_log_line rejects
ProcessUnparseable(line) ==
    /\ ParseLogLine(line) = Unparseable
    /\ dispatches' = <<>>
    /\ posts' = <<>>
    /\ UNCHANGED <<config, last_alert_time, request_window, current_pool,
                   now, pushed, error_rate, delivered, outcomes>>

\* mutant: the error rate check comes before the pool check
ProcessParsed_RateFirst(data, r1, r2) ==
    LET w == DequeAppend(request_window, data, window_size)
        he == HighErrorRateDue(w, error_threshold, window_size)
        d2 == SendSlackAlert(HIGH_ERROR_RATE, RateDetails(w, current_pool),
                             maintenance_mode, slack_webhook,
                             last_alert_time, now, r2)
        lat2 == IF he THEN d2.lat ELSE last_alert_time
        t2 == IF he THEN d2.done ELSE now
        fo == FailoverDue(data.pool, current_pool)
        d1 == SendSlackAlert(FAILOVER,
                             FailoverDetails(data.pool, current_pool),
                             maintenance_mode, slack_webhook, lat2, t2, r1)
    IN /\ request_window' = w
       /\ pushed' = Append(pushed, data)
       /\ current_pool' = NextPool(data.pool, current_pool)
       /\ error_rate' = CalculateErrorRate(w)
       /\ last_alert_time' = IF fo THEN d1.lat ELSE lat2
       /\ now' = IF fo THEN d1.done ELSE t2
       /\ dispatches' = (IF he THEN <<Logged(d2)>> ELSE <<>>)
                        \o (IF fo THEN <<Logged(d1)>> ELSE <<>>)
       /\ posts' = (IF he THEN d2.posts ELSE <<>>)
                   \o (IF fo THEN d1.posts ELSE <<>>)
       /\ delivered' = Deliver(delivered, posts')
       /\ outcomes' = Outcomes(outcomes, dispatches')
       /\ UNCHANGED config

\* process_log_line on a line that parses to data, with the webhook's
\* answers to the failover alert (r1) and to the error rate alert (r2)
ProcessParsed(data, r1, r2) ==
    LET w == DequeAppend(request_window, data, window_size)
        fo == FailoverDue(data.pool, current_pool)
        d1 == SendSlackAlert(FAILOVER,
                             FailoverDetails(data.pool, current_pool),
                             maintenance_mode, slack_webhook,
                             last_alert_time, now, r1)
        lat1 == IF fo THEN d1.lat ELSE last_alert_time
        t1 == IF fo THEN d1.done ELSE now
        pool1 == NextPool(data.pool, current_pool)
        he == HighErrorRateDue(w, error_threshold, window_size)
        d2 == SendSlackAlert(HIGH_ERROR_RATE, RateDetails(w, pool1),
                             maintenance_mode, slack_webhook, lat1, t1, r2)
    IN /\ request_window' = w
       /\ pushed' = Append(pushed, data)
       /\ current_pool' = pool1
       /\ error_rate' = CalculateErrorRate(w)
       /\ last_alert_time' = IF he THEN d2.lat ELSE lat1
       /\ now' = IF he THEN d2.done ELSE t1
       /\ dispatches' = (IF fo THEN <<Logged(d1)>> ELSE <<>>)
                        \o (IF he THEN <<Logged(d2)>> ELSE <<>>)
       /\ posts' = (IF fo THEN d1.posts ELSE <<>>)
                   \o (IF he THEN d2.posts ELSE <<>>)
       /\ delivered' = Deliver(delivered, posts')
       /\ outcomes' = Outcomes(outcomes, dispatches')
       /\ UNCHANGED config

ProcessLogLine(line) ==
    /\ ParseLogLine(line) # Unparseable
    /\ LET data == ParseLogLine(line)
           fo == FailoverDue(data.pool, current_pool)
           he == HighErrorRateDue(
                     DequeAppend(request_window, data, window_size),
                     error_threshold, window_size)
       IN \E r1 \in (IF fo THEN ResponsesFor(FAILOVER, maintenance_mode,
                                              slack_webhook, last_alert_time,
                                              now)
                     ELSE {NoResponse}) :
             LET d1 == SendSlackAlert(FAILOVER,
                                      FailoverDetails(data.pool, current_pool),
                                      maintenance_mode, slack_webhook,
                                      last_alert_time, now, r1)
                 lat1 == IF fo THEN d1.lat ELSE last_alert_time
                 t1 == IF fo THEN d1.done ELSE now
             IN \E r2 \in (IF he THEN ResponsesFor(HIGH_ERROR_RATE,
                                                   maintenance_mode,
                                                   slack_webhook, lat1, t1)
                           ELSE {NoResponse}) :
                   ProcessParsed(data, r1, r2)

\* the log has no new line: the loop sleeps and the clock moves on
Sleep ==
    /\ now < MaxTime
    /\ now' = now + 1
    /\ UNCHANGED <<config, last_alert_time, request_window, current_pool,
                   pushed, dispatches, error_rate, posts, delivered,
                   outcomes>>

\* a line is given to process_log_line, as long as fewer than MaxLines
\* were parsed
GiveParsed(line) ==
    /\ Len(pushed) < MaxLines
    /\ ProcessLogLine(line)
    /\ UNCHANGED stream

GiveUnparseable(line) ==
    /\ ProcessUnparseable(line)
    /\ UNCHANGED stream

Idle ==
    /\ Sleep
    /\ UNCHANGED stream

Next ==
    \/ \E line \in Lines : GiveParsed(line)
    \/ \E line \in Lines : GiveUnparseable(line)
    \/ Idle

Spec == Init /\ [][Next]_vars

\* ------------------------------------------- calculate_error_rate alone
\* windows of any content, also with statuses at the edges of [500,600)
RateStatuses == {200, 499, 500, 599, 600}
RateRecords == [upstream_status : RateStatuses, pool : {"A"}]
RateWindows == UNION {[1..n -> RateRecords] : n \in 0..MaxRateLen}

RateInit ==
    /\ slack_webhook = FALSE
    /\ error_threshold = SmallThreshold
    /\ window_size = MaxRateLen
    /\ maintenance_mode = FALSE
    /\ last_alert_time = <<>>
    /\ request_window \in RateWindows
    /\ current_pool = None
    /\ now = 0
    /\ pushed = <<>>
    /\ dispatches = <<>>
    /\ error_rate = ZeroRate
    /\ posts = <<>>
    /\ delivered = [a \in AlertTypes |-> <<>>]
    /\ outcomes = [a \in AlertTypes |-> <<>>]
    /\ NoStream

\* error_rate = self.calculate_error_rate()
ComputeErrorRate ==
    /\ error_rate' = CalculateErrorRate(request_window)
    /\ UNCHANGED <<config, last_alert_time, request_window, current_pool,
                   now, pushed, dispatches, posts, delivered, outcomes>>
    /\ UNCHANGED stream

RateNext == ComputeErrorRate

SpecRate == RateInit /\ [][RateNext]_vars

\* ------------------------------------------------ a whole batch of lines
\* A window of BatchWindow records is filled once, the lines with an
\* upstream error first.
BatchLines == {l \in GoodLines : l.pool = "A" /\ l.upstream_status = "-"}

BatchInit ==
    /\ slack_webhook \in BOOLEAN
    /\ error_threshold = BatchThreshold
    /\ window_size = BatchWindow
    /\ maintenance_mode = FALSE
    /\ Fresh
    /\ NoStream

BatchLine(line) ==
    /\ Len(pushed) < window_size
    /\ IsError(ParseLogLine(line)) => \A i \in DOMAIN pushed : IsError(pushed[i])
    /\ ProcessLogLine(line)
    /\ UNCHANGED stream

BatchNext == \E line \in BatchLines : BatchLine(line)

SpecBatch == BatchInit /\ [][BatchNext]_vars

\* ------------------------------------------------------------ watch_logs
\* The log file is a sequence of whole lines; a writer appends to it while
\* watch_logs reads it.  A line of the file is its text and its line end.
LineEnds == {"\n", " \n"}

StreamTexts ==
    {l \in GoodLines :
        l.status = "500" /\ l.upstream_status = "-" /\ l.pool = "A"}
    \cup {l \in BadLines : ~l.matched \/ l.upstream_status = "x"}

StreamLines ==
    {l \in [text : StreamTexts, end : LineEnds] :
        l.end = "\n" \/ l.text \in GoodLines}

\* the files that watch_logs can find when it opens the log
Histories ==
    {<<>>} \cup {<<h>> : h \in {l \in StreamLines : l.end = " \n"}}

\* line.strip()
Strip(raw) == raw.text

\* mutant: the file is read from its start
AttachPos_Start(f) == 0

\* file.seek(0, 2)
AttachPos(f) == Len(f)

\* mutant: an exception of process_log_line ends the loop
LoopAlive_Uncaught(raised) == ~raised

\* try ... except Exception: the loop goes on whether or not
\* process_log_line raised
LoopAlive(raised) == TRUE

StreamInit ==
    /\ slack_webhook = FALSE
    /\ error_threshold = SmallThreshold
    /\ window_size = 1
    /\ maintenance_mode = FALSE
    /\ Fresh
    /\ file \in Histories
    /\ attach = Len(file)
    /\ pos = AttachPos(file)
    /\ handed = <<>>
    /\ running = TRUE

\* the writer of the log appends one whole line
AppendLine(raw) ==
    /\ Len(file) < MaxFile
    /\ file' = Append(file, raw)
    /\ UNCHANGED <<config, last_alert_time, request_window, current_pool,
                   now, pushed, dispatches, error_rate, posts, delivered,
                   outcomes, attach, pos, handed, running>>

\* where process_log_line can be left by an exception
AbortPoints == {"entry", "appended"}

\* process_log_line left by an exception at the point given
ProcessRaises(line, point) ==
    /\ dispatches' = <<>>
    /\ posts' = <<>>
    /\ IF point = "appended"
       THEN /\ ParseLogLine(line) # Unparseable
            /\ request_window' = DequeAppend(request_window,
                                             ParseLogLine(line), window_size)
            /\ pushed' = Append(pushed, ParseLogLine(line))
       ELSE UNCHANGED <<request_window, pushed>>
    /\ UNCHANGED <<config, last_alert_time, current_pool, now, error_rate,
                   delivered, outcomes>>

\* the argument of process_log_line when file.readline() gives a line
NextLine == Strip(file[pos + 1])

\* line = file.readline() gave a line: it is stripped and handed on
Hand(raised) ==
    /\ running
    /\ pos < Len(file)
    /\ pos' = pos + 1
    /\ handed' = Append(handed, [line |-> NextLine, raised |-> raised])
    /\ running' = LoopAlive(raised)
    /\ UNCHANGED <<file, attach>>

ReadParsed ==
    /\ Hand(FALSE)
    /\ ProcessLogLine(NextLine)

ReadUnparseable ==
    /\ Hand(FALSE)
    /\ ProcessUnparseable(NextLine)

ReadRaises ==
    /\ Hand(TRUE)
    /\ \E point \in AbortPoints : ProcessRaises(NextLine, point)

\* no new line: time.sleep(0.1)
ReadNothing ==
    /\ running
    /\ pos = Len(file)
    /\ Sleep
    /\ UNCHANGED stream

\* one turn of the loop of watch_logs that finds a line
ReadLine == ReadParsed \/ ReadUnparseable \/ ReadRaises

StreamNext ==
    \/ \E raw \in StreamLines : AppendLine(raw)
    \/ ReadParsed
    \/ ReadUnparseable
    \/ ReadRaises
    \/ ReadNothing

SpecStream == StreamInit /\ [][StreamNext]_vars

\* the same loop on a log that is empty when it is opened, with fewer
\* kinds of lines; the loop does not stop taking turns while a line waits
\* to be read
LiveLines == {l \in StreamLines : l.end = "\n" /\ l.text.matched}

LiveInit == StreamInit /\ file = <<>>

LiveNext ==
    \/ \E raw \in LiveLines : AppendLine(raw)
    \/ ReadParsed
    \/ ReadUnparseable
    \/ ReadRaises
    \/ ReadNothing

SpecStreamLive == LiveInit /\ [][LiveNext]_vars /\ WF_vars(ReadLine)

\* --------------------------------------------------------------- claims
\* the step handled a line that parsed
ParsedStep == pushed' # pushed

Range(q) == {q[i] : i \in DOMAIN q}

IsDelivered(p) == ~p.raised /\ p.status = 200

\* C1: any two posts of the same alert type that the webhook answered
\* with 200 are at least cooldown_sec apart.
C1_SendsSeparatedByCooldown ==
    \A a \in AlertTypes :
        \A i, j \in DOMAIN delivered[a] :
            i < j => delivered[a][j] - delivered[a][i] >= cooldown_sec

C1_Witness ==
    \E a \in AlertTypes : Len(delivered[a]) >= 2

\* C2: with maintenance off and the webhook configured, the first alert of
\* a type is sent when the webhook answers 200 and its completion time is
\* recorded in last_alert_time; an alert of the same type raised less than
\* cooldown_sec after a delivered one is suppressed by cooldown and makes
\* no post.
C2_SecondWithinCooldownSuppressed ==
    [][ParsedStep /\ ~maintenance_mode /\ slack_webhook =>
        \A d \in Range(dispatches') :
            LET a == d.alert_type
                mine == {p \in Range(posts') : p.alert_type = a}
            IN /\ (delivered[a] = <<>> /\ \A p \in mine : IsDelivered(p))
                    => /\ d.outcome = "sent"
                       /\ a \in DOMAIN last_alert_time'
                       /\ last_alert_time'[a] = d.done
                       /\ delivered'[a] = <<d.at>>
               /\ (delivered[a] # <<>>
                   /\ d.at - Last(delivered[a]) < cooldown_sec)
                    => /\ d.outcome = "cooldown"
                       /\ mine = {}
                       /\ last_alert_time'[a] = last_alert_time[a]]_vars

C2_Witness ==
    /\ ~maintenance_mode /\ slack_webhook
    /\ \E d \in Range(dispatches) :
          /\ d.outcome = "cooldown"
          /\ Len(delivered[d.alert_type]) = 1
          /\ d.at - delivered[d.alert_type][1] < cooldown_sec

\* the entry of last_alert_time for an alert type, None if there is none
Entry(lat, a) == IF a \in DOMAIN lat THEN lat[a] ELSE -1

\* C3: a dispatch that fails (status other than 200, or an exception)
\* leaves last_alert_time unchanged, and the next dispatch of the same
\* type is not suppressed by cooldown: it posts to the webhook again.
C3_FailureKeepsCooldownState ==
    [][ParsedStep =>
        \A d \in Range(dispatches') :
            LET a == d.alert_type
                mine == {p \in Range(posts') : p.alert_type = a}
            IN /\ (d.outcome = "failed" \/ \E p \in mine : ~IsDelivered(p))
                    => /\ Entry(last_alert_time', a) = Entry(last_alert_time, a)
                       /\ delivered'[a] = delivered[a]
               /\ (outcomes[a] # <<>> /\ Last(outcomes[a]) = "failed")
                    => /\ d.outcome \in {"sent", "failed"}
                       /\ Cardinality(mine) = 1]_vars

C3_Witness ==
    \E a \in AlertTypes :
        /\ Len(outcomes[a]) >= 3
        /\ outcomes[a][1] = "sent"
        /\ outcomes[a][2] = "failed"
        /\ outcomes[a][3] = "sent"
        /\ a \in DOMAIN last_alert_time

\* C4: the window never holds more than window_size records, and once
\* more than window_size records were pushed it holds exactly the last
\* window_size of them, in arrival order.
C4_WindowHoldsLastN ==
    /\ Len(request_window) <= window_size
    /\ Len(pushed) > window_size =>
          request_window =
              SubSeq(pushed, Len(pushed) - window_size + 1, Len(pushed))

C4_Witness ==
    /\ window_size = MaxWindow
    /\ Len(pushed) > window_size
    /\ pushed[1] # request_window[1]
    /\ request_window[1] # request_window[Len(request_window)]

C6_NoRateAlertBelowFill ==
    Len(request_window) < window_size => outcomes[HIGH_ERROR_RATE] = <<>>

C6_Witness ==
    /\ Len(request_window) < window_size
    /\ pushed # <<>>
    /\ \A r \in Range(pushed) : r.upstream_status \in 500..599
    /\ RateExceeds(error_rate, error_threshold)
    /\ outcomes[HIGH_ERROR_RATE] = <<>>

\* C7: a parsed record causes a failover dispatch exactly when its pool is
\* non-empty, the stored pool is not None and the two differ; there is at
\* most one, and it carries the stored pool as previous and the record's
\* pool as new.
C7_FailoverExactlyOnChange ==
    [][ParsedStep =>
        LET data == Last(pushed')
            fos == {i \in DOMAIN dispatches' :
                        dispatches'[i].alert_type = FAILOVER}
        IN /\ (fos # {}) <=> /\ data.pool # ""
                             /\ current_pool # None
                             /\ data.pool # current_pool
           /\ Cardinality(fos) <= 1
           /\ \A i \in fos :
                 dispatches'[i].details =
                     [previous |-> current_pool, new |-> data.pool]]_vars

C7_Witness ==
    /\ Len(pushed) = 3
    /\ pushed[1].pool = "A" /\ pushed[2].pool = "A" /\ pushed[3].pool = "B"
    /\ Len(outcomes[FAILOVER]) = 1
    /\ \E d \in Range(dispatches) :
          /\ d.alert_type = FAILOVER
          /\ d.details = [previous |-> "A", new |-> "B"]

\* C8: after a parsed record the stored pool is the record's pool if that
\* is non-empty and is unchanged otherwise, whatever the outcome of the
\* failover dispatch.
C8_PoolAlwaysStored ==
    [][ParsedStep =>
        LET data == Last(pushed')
        IN current_pool' = IF data.pool # "" THEN data.pool
                           ELSE current_pool]_vars

C8_Witness ==
    /\ pushed # <<>>
    /\ current_pool = Last(pushed).pool
    /\ \E d \in Range(dispatches) :
          /\ d.alert_type = FAILOVER
          /\ d.outcome = "cooldown"

\* C9: with maintenance mode on, no post is ever made to the webhook and
\* last_alert_time stays as it was at start, for both alert types.
C9_MaintenanceSilences ==
    maintenance_mode =>
        /\ posts = <<>>
        /\ last_alert_time = <<>>
        /\ \A a \in AlertTypes :
              /\ delivered[a] = <<>>
              /\ \A o \in Range(outcomes[a]) : o = "maintenance"

C9_Witness ==
    /\ maintenance_mode
    /\ slack_webhook
    /\ \A a \in AlertTypes : \E d \in Range(dispatches) : d.alert_type = a

\* C10: last_alert_time has an entry for an alert type exactly when a post
\* of that type was answered with 200; entries are never removed; and a
\* dispatch of a type that was never delivered is not suppressed by
\* cooldown.
C10_EntryIffDelivered ==
    /\ [](DOMAIN last_alert_time
              = {a \in AlertTypes : delivered[a] # <<>>})
    /\ [][/\ DOMAIN last_alert_time \subseteq DOMAIN last_alert_time'
          /\ ParsedStep =>
                \A d \in Range(dispatches') :
                    delivered[d.alert_type] = <<>>
                        => d.outcome # "cooldown"]_vars

C10_Witness ==
    \E a \in AlertTypes :
        /\ outcomes[a] = <<"failed", "sent", "cooldown">>
        /\ DOMAIN last_alert_time = {a}

\* the indices of the dispatches of one alert type
Of(ds, a) == {i \in DOMAIN ds : ds[i].alert_type = a}

\* C11: maintenance comes first (with maintenance on the outcome is the
\* maintenance suppression even when the webhook is not configured), then
\* the unconfigured webhook (no post, last_alert_time unchanged), then the
\* cooldown; a post is made exactly when none of the three applies.
C11_SuppressionOrder ==
    [][ParsedStep =>
        \A d \in Range(dispatches') :
            LET a == d.alert_type
                mine == {p \in Range(posts') : p.alert_type = a}
                cooling == /\ a \in DOMAIN last_alert_time
                           /\ d.at - last_alert_time[a] < cooldown_sec
            IN /\ maintenance_mode => d.outcome = "maintenance"
               /\ (~maintenance_mode /\ ~slack_webhook)
                    => /\ d.outcome = "unconfigured"
                       /\ mine = {}
                       /\ last_alert_time' = last_alert_time
               /\ (~maintenance_mode /\ slack_webhook /\ cooling)
                    => d.outcome = "cooldown"
               /\ (mine # {}) <=> /\ ~maintenance_mode
                                  /\ slack_webhook
                                  /\ ~cooling]_vars

C11_Witness ==
    /\ maintenance_mode
    /\ ~slack_webhook
    /\ dispatches # <<>>
    /\ \A d \in Range(dispatches) : d.outcome = "maintenance"

\* a line that has the shape of log_pattern and numerals where numbers are
\* read
WellFormed(line) ==
    /\ line.matched
    /\ line.status \in {"200", "500"}
    /\ line.request_time \in {"-", "0.1", "200", "500"}
    /\ line.upstream_response_time \in {"-", "0.1", "200", "500"}
    /\ line.upstream_status \in {"-", "200", "500"}

\* C12: handing a line that is not well formed to process_log_line leaves
\* the window, the stored pool and last_alert_time unchanged and makes no
\* dispatch; every record in the window comes from a well-formed line.
C12_UnparseableChangesNothing ==
    /\ [](\A r \in Range(request_window) :
              \E i \in DOMAIN handed :
                  /\ WellFormed(handed[i].line)
                  /\ r.pool = handed[i].line.pool)
    /\ [][(Len(handed') > Len(handed) /\ ~WellFormed(Last(handed').line))
            => /\ request_window' = request_window
               /\ pushed' = pushed
               /\ current_pool' = current_pool
               /\ last_alert_time' = last_alert_time
               /\ outcomes' = outcomes
               /\ dispatches' = <<>>
               /\ posts' = <<>>]_vars

C12_Witness ==
    /\ Len(handed) = 3
    /\ WellFormed(handed[1].line)
    /\ ~handed[2].line.matched
    /\ handed[3].line.matched /\ handed[3].line.upstream_status = "x"
    /\ \A i \in DOMAIN handed : ~handed[i].raised
    /\ Len(pushed) = 1
    /\ current_pool = handed[1].line.pool
    /\ current_pool # handed[3].line.pool

\* C13: the loop never stops, and every line appended to the log after it
\* was opened is eventually handed to process_log_line, also when
\* process_log_line raised an exception on an earlier line.
C13_LoopSurvivesExceptions ==
    /\ []running
    /\ \A n \in 1..MaxFile :
          (Len(file) - attach >= n) ~> (Len(handed) >= n)

C13_Witness ==
    /\ Len(handed) >= 2
    /\ handed[1].raised
    /\ ~Last(handed).raised
    /\ pos = Len(file)

\* C14: the lines handed to process_log_line are, in order and once each,
\* the first lines appended to the file after it was opened, stripped; no
\* line that was in the file when it was opened is handed on.
C14_HandedIsPrefixOfAppended ==
    /\ Len(handed) <= Len(file) - attach
    /\ \A i \in DOMAIN handed : handed[i].line = file[attach + i].text

C14_Witness ==
    /\ attach = 1
    /\ Len(handed) = 2
    /\ handed[1].line # file[1].text
    /\ handed[2].line = file[1].text
    /\ file[3].end = " \n"

\* C15: after exactly window_size parsed lines of which k have an upstream
\* status in [500,600), one "High Error Rate" dispatch was attempted if
\* 100 * k / window_size > error_threshold and none otherwise; none is
\* attempted before the last line.
C15_BatchAlertIffRateAbove ==
    LET n == Len(pushed)
        k == Cardinality({i \in DOMAIN pushed :
                              pushed[i].upstream_status \in 500..599})
    IN /\ n < window_size => outcomes[HIGH_ERROR_RATE] = <<>>
       /\ n = window_size =>
             Len(outcomes[HIGH_ERROR_RATE]) =
                 IF 100 * k > error_threshold * n THEN 1 ELSE 0

\* C16, as claimed: when one line causes both alerts, the "High Error
\* Rate" dispatch comes before the "Failover Detected" dispatch.
C16_RateBeforeFailover ==
    [][ParsedStep =>
        \A i \in Of(dispatches', HIGH_ERROR_RATE) :
            \A j \in Of(dispatches', FAILOVER) : i < j]_vars

\* C16, amended: the record is pushed first; then the pool change is
\* looked at, its "Failover Detected" dispatch made and the pool stored;
\* only then the error rate is looked at and its "High Error Rate"
\* dispatch made, which reports the pool just stored.
C16_FailoverBeforeRate ==
    [][ParsedStep =>
        /\ Last(request_window') = Last(pushed')
        /\ \A i \in Of(dispatches', FAILOVER) :
              \A j \in Of(dispatches', HIGH_ERROR_RATE) :
                  /\ i < j
                  /\ dispatches'[i].done <= dispatches'[j].at
        /\ \A j \in Of(dispatches', HIGH_ERROR_RATE) :
              dispatches'[j].details.previous =
                  IF current_pool' = None THEN "unknown"
                  ELSE current_pool']_vars

C16_Witness ==
    /\ Len(dispatches) = 2
    /\ dispatches[1].alert_type = FAILOVER
    /\ dispatches[1].outcome = "sent"
    /\ dispatches[2].alert_type = HIGH_ERROR_RATE
    /\ dispatches[2].details.previous = Last(pushed).pool
    /\ dispatches[1].details.previous # Last(pushed).pool

\* C17: with a full window, a parsed line causes a "High Error Rate"
\* dispatch exactly when 100 * (errors in the window) / (window length)
\* is strictly greater than error_threshold.
C17_RateAlertIffRateAbove ==
    [][(ParsedStep /\ Len(request_window') = window_size) =>
        LET w == request_window'
            k == Cardinality({i \in DOMAIN w :
                                  w[i].upstream_status \in 500..599})
        IN (Of(dispatches', HIGH_ERROR_RATE) # {})
               <=> (100 * k > error_threshold * Len(w))]_vars

\* C18: a dispatch posts to the webhook at most once, whatever the answer:
\* per line and alert type there is at most one post, and there is one
\* exactly for the dispatches that got past the three suppressions.
C18_NoRetries ==
    \A a \in AlertTypes :
        /\ Cardinality(Of(posts, a)) <= 1
        /\ Cardinality(Of(posts, a)) =
               Cardinality({i \in Of(dispatches, a) :
                                dispatches[i].outcome \in {"sent", "failed"}})

C18_Witness ==
    /\ Len(posts) = 2
    /\ posts[1].raised
    /\ ~posts[2].raised /\ posts[2].status = 500

\* the pool of the last record that carries one
KnownPool(q) ==
    LET named == {i \in DOMAIN q : q[i].pool # ""}
    IN IF named = {} THEN None
       ELSE q[CHOOSE i \in named : \A j \in named : j <= i].pool

\* the records whose pool differs from the pool known before them
PoolChanges(q) ==
    {i \in DOMAIN q : /\ q[i].pool # ""
                      /\ KnownPool(SubSeq(q, 1, i - 1)) # None
                      /\ KnownPool(SubSeq(q, 1, i - 1)) # q[i].pool}

\* C19: failover dispatches are made only for changes of the pool, one
\* each; after a failover dispatch that was suppressed or failed, a record
\* causes a failover dispatch exactly when it carries a non-empty pool
\* other than the one of the record that caused the earlier dispatch.
C19_NoReattemptForSamePool ==
    /\ [](Len(outcomes[FAILOVER]) = Cardinality(PoolChanges(pushed)))
    /\ [][(/\ ParsedStep
           /\ outcomes[FAILOVER] # <<>>
           /\ Last(outcomes[FAILOVER]) # "sent")
            => ((Of(dispatches', FAILOVER) # {})
                   <=> Last(pushed').pool \notin {"", KnownPool(pushed)})]_vars

C19_Witness ==
    /\ Len(pushed) = 3
    /\ pushed[1].pool = "A" /\ pushed[2].pool = "B" /\ pushed[3].pool = "B"
    /\ outcomes[FAILOVER] = <<"failed">>
    /\ Of(dispatches, FAILOVER) = {}

\* C20: a delivered alert of one type leaves the last_alert_time entry of
\* the other type as it was, and a dispatch is suppressed by cooldown only
\* after a delivered post of its own type less than cooldown_sec (plus the
\* time that post took) earlier.
C20_CooldownPerType ==
    [][ParsedStep =>
        \A d \in Range(dispatches') :
            LET a == d.alert_type
            IN /\ d.outcome = "sent" =>
                     \A b \in AlertTypes \ {a} :
                         (\A i \in Of(dispatches', b) :
                              dispatches'[i].outcome # "sent")
                             => Entry(last_alert_time', b)
                                    = Entry(last_alert_time, b)
               /\ d.outcome = "cooldown" =>
                     /\ delivered[a] # <<>>
                     /\ d.at - Last(delivered[a])
                            < cooldown_sec + MaxLatency]_vars

C20_Witness ==
    /\ Len(dispatches) = 2
    /\ dispatches[1].alert_type = FAILOVER
    /\ dispatches[1].outcome = "sent"
    /\ dispatches[2].alert_type = HIGH_ERROR_RATE
    /\ dispatches[2].outcome = "sent"
    /\ dispatches[2].at - dispatches[1].done < cooldown_sec

====
